---- MODULE Spec2Model ----
(***************************************************************************)
(* Model of the judging orchestrator in src/judge.py: the /judge handler,  *)
(* the _judge event generator, compile(), and the judge_one tasks that     *)
(* judge_one.map runs concurrently and yields in completion order.         *)
(*                                                                         *)
(* Python values: a str is a sequence of one-character strings, a dict is  *)
(* a record (a key is present iff it is in DOMAIN), and a value that may   *)
(* be None is None or Some(v).  Opaque texts (response bodies, compiler    *)
(* diagnostics, ids) are TLA+ strings.                                     *)
(***************************************************************************)
EXTENDS Integers, Sequences, FiniteSets, TLC

\* ---------------------------------------------------------------- bounds
MaxTests == 2
MaxLen == 2
LenSpread == 3
CapSpread == 2

\* ------------------------------------------------------ program constants
LargeInputThreshold == 2000000
OutputCap == 10000

\* ------------------------------------------------------- python encodings
None == <<>>
Some(v) == <<v>>
Val(o) == o[1]

\* {**b, **a}: keys of a win
MergeFirstWins(a, b) == a @@ b

\* {**a, **b}: keys of b win
Merge(a, b) == b @@ a

Chars == {"a", " ", "\n"}
Whitespace == {" ", "\n", "\t", "\r"}

StrsUpTo(n) == UNION {[1..k -> Chars] : k \in 0..n}

\* s[:n]
Prefix(s, n) == SubSeq(s, 1, IF Len(s) < n THEN Len(s) ELSE n)

RECURSIVE LStrip(_)
LStrip(s) == IF s # <<>> /\ Head(s) \in Whitespace THEN LStrip(Tail(s)) ELSE s

RECURSIVE RStrip(_)
RStrip(s) ==
  IF s # <<>> /\ s[Len(s)] \in Whitespace
    THEN RStrip(SubSeq(s, 1, Len(s) - 1))
    ELSE s

\* str.rstrip() in place of str.strip()
StripRight(s) == RStrip(s)

\* str.strip()
Strip(s) == RStrip(LStrip(s))

\* a or b, for a file_output that may be None or "" (both falsy)
OrElse(a, b) == IF a = None \/ Val(a) = <<>> THEN b ELSE Val(a)

\* ------------------------------------------------------------ data store
ProblemIds == {"p_unknown", "p_nodata", "p_ok"}
Problems == {"p_nodata", "p_ok"}
UsacoToProbgate == [p \in {"p_ok"} |-> "pg_ok"]
TimeLimitMs == 2000
Shortname == "prob"

\* input file sizes of the manifests: one sent inline, one offloaded
InputLens == {LargeInputThreshold, LargeInputThreshold + 1}
ExpectedOutputs == {<<"a">>}

TestCase == [input_len : InputLens, expected : ExpectedOutputs]
Manifests == UNION {[0..(n - 1) -> TestCase] : n \in 0..MaxTests}

\* --------------------------------------------------- backend's behaviour
RawTexts == {"<html>502</html>"}
FetchedTexts == {"<html>403</html>"}

CompileDicts ==
  { [executable |-> Some("bin"), compile_output |-> "warning"],
    [executable |-> Some("bin2")],
    [executable |-> None, compile_output |-> "syntax error"],
    [compile_output |-> "syntax error"],
    [internal_error |-> "compiler crashed"] }

CompileResponses ==
  {[text |-> t, json |-> None] : t \in RawTexts}
    \cup {[text |-> "json", json |-> Some(d)] : d \in CompileDicts}

LargeInputDicts == {[presigned_url |-> "s3://slot", input_id |-> "id1"]}

LargeInputResponses ==
  {[text |-> t, json |-> None] : t \in RawTexts}
    \cup {[text |-> "json", json |-> Some(d)] : d \in LargeInputDicts}

Verdicts == {"accepted", "wrong_answer", "time_limit_exceeded"}

VerdictDicts ==
  [ verdict : {"accepted", "time_limit_exceeded"},
    stdout : {<<"a", "\n">>},
    stderr : {<<>>},
    file_output : {None, Some(<<" ">>)},
    full_output_url : {None} ]

\* the fetched body also carries keys named like the correlation attributes
FullOutputDicts ==
  { [verdict |-> "accepted", stdout |-> <<" ", "a">>, stderr |-> <<>>,
     file_output |-> None, test_case |-> 99, total_test_cases |-> 99] }

ExecuteDicts ==
  VerdictDicts
    \cup { [internal_error |-> "sandbox crashed", full_output_url |-> None],
           [verdict |-> "accepted", full_output_url |-> Some("s3://full")],
           [message |-> "Internal server error"] }

ExecuteResponses ==
  {[text |-> t, json |-> None] : t \in RawTexts}
    \cup {[text |-> "json", json |-> Some(d)] : d \in ExecuteDicts}

FullOutputResponses ==
  {[text |-> t, json |-> None] : t \in FetchedTexts}
    \cup {[text |-> "json", json |-> Some(d)] : d \in FullOutputDicts}

\* ----------------------------------------------------------------- state
VARIABLES
  pc,               \* position of judge / _judge
  http,             \* the HTTP answer of /judge: None, a 404 or the stream
  problem_id,       \* request.problem_id
  tests,            \* probgate_problem["tests"] of the mapped problem
  compile_calls,    \* number of POSTs to COMPILE_URL
  compile_response, \* response of the compile POST, None before it / if it raised
  compile_result,   \* compile_result of _judge, None until compile() returned
  stream,           \* the events _judge has yielded
  task,             \* the judge_one invocations of judge_one.map
  outq,             \* finished invocations not yet consumed, completion order
  unit              \* a pure function under test: its input and output

vars ==
  << pc, http, problem_id, tests, compile_calls, compile_response,
     compile_result, stream, task, outq, unit >>

UnitOff == [pc |-> "off"]

Init ==
  /\ pc = "request"
  /\ http = None
  /\ problem_id = "none"
  /\ tests \in Manifests
  /\ compile_calls = 0
  /\ compile_response = None
  /\ compile_result = None
  /\ stream = <<>>
  /\ task = <<>>
  /\ outq = <<>>
  /\ unit = UnitOff

\* ------------------------------------------------------------- /judge
HTTPException(status, detail) == [status_code |-> status, detail |-> detail]

\* judge() without the test-data mapping check of lines 161-165
JudgeNoMappingCheck ==
  /\ pc = "request"
  /\ \E p \in ProblemIds :
       /\ problem_id' = p
       /\ IF p \notin Problems
            THEN /\ http' = Some(HTTPException(404, "Problem not found"))
                 /\ pc' = "rejected"
            ELSE /\ http' = Some([status_code |-> 200,
                                  detail |-> "text/event-stream"])
                 /\ pc' = "compile"
  /\ UNCHANGED << tests, compile_calls, compile_response, compile_result,
                  stream, task, outq, unit >>

\* judge(), up to the creation of the StreamingResponse
Judge ==
  /\ pc = "request"
  /\ \E p \in ProblemIds :
       /\ problem_id' = p
       /\ IF p \notin Problems
            THEN /\ http' = Some(HTTPException(404, "Problem not found"))
                 /\ pc' = "rejected"
            ELSE IF p \notin DOMAIN UsacoToProbgate
              THEN /\ http' = Some(HTTPException(404,
                                 "We don't have test data for this problem yet."))
                   /\ pc' = "rejected"
              ELSE /\ http' = Some([status_code |-> 200,
                                    detail |-> "text/event-stream"])
                   /\ pc' = "compile"
  /\ UNCHANGED << tests, compile_calls, compile_response, compile_result,
                  stream, task, outq, unit >>

\* ------------------------------------------------------------ exceptions
Exc(type, arg, line) == [type |-> type, arg |-> arg, line |-> line]
Returned(v) == [ret |-> Some(v), exc |-> None]
Raised(e) == [ret |-> None, exc |-> Some(e)]

\* f"event: <name>\ndata: <data>\n\n"
Event(name, data) == [event |-> name, data |-> data]

\* ------------------------------------------------------------- compile()
\* compile() turning a failed call into an internal_error value
CompileInternalError(post) ==
  IF post = None
    THEN Returned([internal_error |-> "ConnectionError"])
    ELSE IF Val(post).json = None
      THEN Returned([internal_error |-> Val(post).text])
      ELSE Returned(Val(Val(post).json))

\* post is None when requests.post raised, else Some(response)
Compile(post) ==
  IF post = None
    THEN Raised(Exc("ConnectionError", "compile", 131))
    ELSE IF Val(post).json = None
      THEN Raised(Exc("Exception", Val(post).text, 143))
      ELSE Returned(Val(Val(post).json))

\* the data of the compile event
CompileEventData(cr) ==
  IF "compile_output" \in DOMAIN cr THEN cr.compile_output ELSE cr

\* the executable check without its "is None" half
CompileFailedKeyOnly(cr) == "executable" \notin DOMAIN cr

\* "executable" not in compile_result or compile_result["executable"] is None
CompileFailed(cr) ==
  \/ "executable" \notin DOMAIN cr
  \/ cr.executable = None

\* --------------------------------------------------------------- grading
GradedKeys == {"verdict", "stdout", "stderr", "file_output"}

\* the naive grader: an accepted verdict is re-checked against output_data
Regrade(result, output_data) ==
  IF result.verdict = "accepted"
       /\ Strip(OrElse(result.file_output, result.stdout)) # Strip(output_data)
    THEN [result EXCEPT !["verdict"] = "wrong_answer"]
    ELSE result

\* the [:10000] cuts of stdout, stderr and a non-None file_output
Truncate(result) ==
  [result EXCEPT
     !["stdout"] = Prefix(@, OutputCap),
     !["stderr"] = Prefix(@, OutputCap),
     !["file_output"] = IF @ = None THEN None ELSE Some(Prefix(Val(@), OutputCap))]

\* the cuts applied before the re-check, so that the cut output is graded
GradeTruncateFirst(result, output_data) ==
  IF "internal_error" \in DOMAIN result
    THEN Returned(result)
    ELSE IF ~(GradedKeys \subseteq DOMAIN result)
      THEN Raised(Exc("KeyError", "verdict", 112))
      ELSE Returned(Regrade(Truncate(result), output_data))

\* lines 110-120 of judge_one
Grade(result, output_data) ==
  IF "internal_error" \in DOMAIN result
    THEN Returned(result)
    ELSE IF ~(GradedKeys \subseteq DOMAIN result)
      THEN Raised(Exc("KeyError", "verdict", 112))
      ELSE Returned(Truncate(Regrade(result, output_data)))

\* ---------------------------------------------------------- judge_one
\* JudgeOneParams numbering the test cases from 1
JudgeOneParamsOneBased(executable, i, n) ==
  [ executable |-> executable,
    timeout_ms |-> TimeLimitMs,
    file_io_name |-> Shortname,
    input_file_path |-> i,
    output_file_path |-> i,
    result_attrs |-> [test_case |-> i + 1, total_test_cases |-> n] ]

\* JudgeOneParams handing on a re-encoded copy of the executable
JudgeOneParamsReencoded(executable, i, n) ==
  [ executable |-> Some(executable),
    timeout_ms |-> TimeLimitMs,
    file_io_name |-> Shortname,
    input_file_path |-> i,
    output_file_path |-> i,
    result_attrs |-> [test_case |-> i, total_test_cases |-> n] ]

JudgeOneParams(executable, i, n) ==
  [ executable |-> executable,
    timeout_ms |-> TimeLimitMs,
    file_io_name |-> Shortname,
    input_file_path |-> i,
    output_file_path |-> i,
    result_attrs |-> [test_case |-> i, total_test_cases |-> n] ]

NewTask(params) ==
  [ phase |-> "pending",
    params |-> params,
    stdin |-> None,
    stdin_id |-> None,
    received |-> <<>>,
    execute_request |-> None,
    execute_calls |-> 0,
    ret |-> None,
    exc |-> None ]

\* the size test with >= in place of >
ShouldOffloadAtThreshold(len) == len >= LargeInputThreshold

\* len(input_data) > 2_000_000
ShouldOffload(len) == len > LargeInputThreshold

\* Stage that keeps the content inline next to the reference id
StageKeepsInline(input_len, post, put_ok) ==
  IF ShouldOffload(input_len)
    THEN IF post = None
      THEN Raised(Exc("ConnectionError", "large-input", 76))
      ELSE IF Val(post).json = None
        THEN Raised(Exc("JSONDecodeError", Val(post).text, 79))
        ELSE IF "presigned_url" \notin DOMAIN Val(Val(post).json)
          THEN Raised(Exc("KeyError", "presigned_url", 81))
          ELSE IF ~put_ok
            THEN Raised(Exc("ConnectionError", "presigned_url", 80))
            ELSE Returned([stdin |-> Some(input_len),
                           stdin_id |-> Some(Val(Val(post).json).input_id)])
    ELSE Returned([stdin |-> Some(input_len), stdin_id |-> None])

\* lines 74-86: post is the outcome of the POST to LARGE_INPUT_URL, put_ok
\* whether the PUT to the presigned url went through
Stage(input_len, post, put_ok) ==
  IF ShouldOffload(input_len)
    THEN IF post = None
      THEN Raised(Exc("ConnectionError", "large-input", 76))
      ELSE IF Val(post).json = None
        THEN Raised(Exc("JSONDecodeError", Val(post).text, 79))
        ELSE IF "presigned_url" \notin DOMAIN Val(Val(post).json)
          THEN Raised(Exc("KeyError", "presigned_url", 81))
          ELSE IF ~put_ok
            THEN Raised(Exc("ConnectionError", "presigned_url", 80))
            ELSE Returned([stdin |-> None,
                           stdin_id |-> Some(Val(Val(post).json).input_id)])
    ELSE Returned([stdin |-> Some(input_len), stdin_id |-> None])

\* the json body of the POST to EXECUTE_URL, lines 90-98
ExecuteRequest(params, stdin, stdin_id) ==
  [ executable |-> params.executable,
    options |-> [ stdin |-> stdin,
                  stdin_id |-> stdin_id,
                  timeout_ms |-> params.timeout_ms,
                  file_io_name |-> params.file_io_name ] ]

\* result["full_output_url"] is not None, line 104, for a decoded response
HasFullOutputUrl(d) == d.full_output_url # None

\* Execute keeping the text of the first response when the fetched body
\* does not decode
ExecuteStaleText(post, get) ==
  IF post = None
    THEN Raised(Exc("ConnectionError", "execute", 88))
    ELSE IF Val(post).json = None
      THEN Returned([internal_error |-> Val(post).text])
      ELSE IF "full_output_url" \notin DOMAIN Val(Val(post).json)
        THEN Raised(Exc("KeyError", "full_output_url", 104))
        ELSE IF ~HasFullOutputUrl(Val(Val(post).json))
          THEN Returned(Val(Val(post).json))
          ELSE IF get = None
            THEN Raised(Exc("ConnectionError", "full_output_url", 105))
            ELSE IF Val(get).json = None
              THEN Returned([internal_error |-> Val(post).text])
              ELSE Returned(Val(Val(get).json))

\* lines 88-108: post is the outcome of the POST to EXECUTE_URL, get the
\* outcome of the GET of full_output_url; returns result
Execute(post, get) ==
  IF post = None
    THEN Raised(Exc("ConnectionError", "execute", 88))
    ELSE IF Val(post).json = None
      THEN Returned([internal_error |-> Val(post).text])
      ELSE IF "full_output_url" \notin DOMAIN Val(Val(post).json)
        THEN Raised(Exc("KeyError", "full_output_url", 104))
        ELSE IF ~HasFullOutputUrl(Val(Val(post).json))
          THEN Returned(Val(Val(post).json))
          ELSE IF get = None
            THEN Raised(Exc("ConnectionError", "full_output_url", 105))
            ELSE IF Val(get).json = None
              THEN Returned([internal_error |-> Val(get).text])
              ELSE Returned(Val(Val(get).json))

\* lines 88-127: the execute call, the grading and the event
ExecuteAndGrade(params, output_data, post, get) ==
  LET e == Execute(post, get) IN
    IF e.exc # None
      THEN e
      ELSE LET g == Grade(Val(e.ret), output_data) IN
        IF g.exc # None
          THEN g
          ELSE Returned(Event("execute",
                              Merge(Val(g.ret), params.result_attrs)))

\* the responses the backend gave to the calls of lines 88 and 105
Received(post, get) ==
  IF post = None
    THEN <<>>
    ELSE IF /\ Val(post).json # None
            /\ "full_output_url" \in DOMAIN Val(Val(post).json)
            /\ Val(Val(post).json).full_output_url # None
            /\ get # None
      THEN <<Val(post), Val(get)>>
      ELSE <<Val(post)>>

\* ------------------------------------------------------------- _judge
\* JudgeCompile with the else of line 178 missing: compile_output and then
\* the whole compile_result are yielded
JudgeCompileNoElse ==
  /\ pc = "compile"
  /\ compile_calls' = compile_calls + 1
  /\ \E post \in {None} \cup {Some(r) : r \in CompileResponses} :
       LET c == Compile(post) IN
         /\ compile_response' = post
         /\ IF c.exc # None
              THEN /\ stream' = Append(stream, Event("error", Val(c.exc)))
                   /\ compile_result' = None
                   /\ pc' = "done"
              ELSE /\ stream' =
                        IF "compile_output" \in DOMAIN Val(c.ret)
                          THEN stream \o
                                 << Event("compile",
                                          Val(c.ret).compile_output),
                                    Event("compile", Val(c.ret)) >>
                          ELSE Append(stream, Event("compile", Val(c.ret)))
                   /\ compile_result' = c.ret
                   /\ pc' = "compiled"
  /\ UNCHANGED << http, problem_id, tests, task, outq, unit >>

\* lines 171-179: the compile call and the compile event
JudgeCompile ==
  /\ pc = "compile"
  /\ compile_calls' = compile_calls + 1
  /\ \E post \in {None} \cup {Some(r) : r \in CompileResponses} :
       LET c == Compile(post) IN
         /\ compile_response' = post
         /\ IF c.exc # None
              THEN /\ stream' = Append(stream, Event("error", Val(c.exc)))
                   /\ compile_result' = None
                   /\ pc' = "done"
              ELSE /\ stream' = Append(stream,
                                  Event("compile", CompileEventData(Val(c.ret))))
                   /\ compile_result' = c.ret
                   /\ pc' = "compiled"
  /\ UNCHANGED << http, problem_id, tests, task, outq, unit >>

\* JudgeDispatch that keeps waiting for results of an empty fan-out
JudgeDispatchWaits ==
  /\ pc = "compiled"
  /\ IF CompileFailed(Val(compile_result))
       THEN /\ pc' = "done"
            /\ task' = task
       ELSE LET n == Cardinality(DOMAIN tests) IN
            /\ task' = [i \in 0..(n - 1) |->
                          NewTask(JudgeOneParams(Val(compile_result).executable,
                                                 i, n))]
            /\ pc' = "streaming"
  /\ UNCHANGED << http, problem_id, tests, compile_calls, compile_response,
                  compile_result, stream, outq, unit >>

\* lines 181-203: the executable check and the fan-out of judge_one.map
JudgeDispatch ==
  /\ pc = "compiled"
  /\ IF CompileFailed(Val(compile_result))
       THEN /\ pc' = "done"
            /\ task' = task
       ELSE LET n == Cardinality(DOMAIN tests) IN
            /\ task' = [i \in 0..(n - 1) |->
                          NewTask(JudgeOneParams(Val(compile_result).executable,
                                                 i, n))]
            /\ pc' = IF n = 0 THEN "done" ELSE "streaming"
  /\ UNCHANGED << http, problem_id, tests, compile_calls, compile_response,
                  compile_result, stream, outq, unit >>

Finished(t) == t.phase \in {"returned", "raised"}

\* judge_one, lines 69-86
JudgeOneStage(i) ==
  /\ task[i].phase = "pending"
  /\ \E post \in {None} \cup {Some(r) : r \in LargeInputResponses},
        put_ok \in BOOLEAN :
       LET s == Stage(tests[task[i].params.input_file_path].input_len,
                      post, put_ok) IN
         IF s.exc # None
           THEN /\ task' = [task EXCEPT ![i].phase = "raised",
                                        ![i].exc = s.exc]
                /\ outq' = Append(outq, i)
           ELSE /\ task' = [task EXCEPT ![i].phase = "staged",
                                        ![i].stdin = Val(s.ret).stdin,
                                        ![i].stdin_id = Val(s.ret).stdin_id]
                /\ outq' = outq
  /\ UNCHANGED << pc, http, problem_id, tests, compile_calls,
                  compile_response, compile_result, stream, unit >>

\* JudgeOneExecute that posts again, up to three times, when the POST to
\* EXECUTE_URL raised
JudgeOneExecuteRetry(i) ==
  /\ task[i].phase = "staged"
  /\ \E post \in {None} \cup {Some(r) : r \in ExecuteResponses},
        get \in {None} \cup {Some(r) : r \in FullOutputResponses} :
       LET t == task[i]
           r == ExecuteAndGrade(t.params,
                                tests[t.params.output_file_path].expected,
                                post, get)
           again == post = None /\ t.execute_calls < 2
       IN /\ task' = [task EXCEPT
                        ![i].phase = IF again THEN "staged"
                                     ELSE IF r.exc # None THEN "raised"
                                     ELSE "returned",
                        ![i].execute_request =
                           Some(ExecuteRequest(t.params, t.stdin, t.stdin_id)),
                        ![i].execute_calls = @ + 1,
                        ![i].received = Received(post, get),
                        ![i].ret = IF again THEN None ELSE r.ret,
                        ![i].exc = IF again THEN None ELSE r.exc]
          /\ outq' = IF again THEN outq ELSE Append(outq, i)
  /\ UNCHANGED << pc, http, problem_id, tests, compile_calls,
                  compile_response, compile_result, stream, unit >>

\* judge_one, lines 88-127
JudgeOneExecute(i) ==
  /\ task[i].phase = "staged"
  /\ \E post \in {None} \cup {Some(r) : r \in ExecuteResponses},
        get \in {None} \cup {Some(r) : r \in FullOutputResponses} :
       LET t == task[i]
           r == ExecuteAndGrade(t.params,
                                tests[t.params.output_file_path].expected,
                                post, get)
       IN task' = [task EXCEPT
                     ![i].phase = IF r.exc # None THEN "raised" ELSE "returned",
                     ![i].execute_request =
                        Some(ExecuteRequest(t.params, t.stdin, t.stdin_id)),
                     ![i].execute_calls = @ + 1,
                     ![i].received = Received(post, get),
                     ![i].ret = r.ret,
                     ![i].exc = r.exc]
  /\ outq' = Append(outq, i)
  /\ UNCHANGED << pc, http, problem_id, tests, compile_calls,
                  compile_response, compile_result, stream, unit >>

\* JudgeYield under order_outputs=True: the invocations are handed over in
\* submission order, each one once it and all earlier ones have finished
JudgeYieldOrdered ==
  /\ pc = "streaming"
  /\ LET i == Cardinality({j \in DOMAIN task :
                             Finished(task[j])
                               /\ \A k \in 1..Len(outq) : outq[k] # j})
     IN /\ i \in DOMAIN task
        /\ Finished(task[i])
        /\ outq' = SelectSeq(outq, LAMBDA j : j # i)
        /\ IF task[i].exc # None
             THEN /\ stream' = Append(stream, Event("error", Val(task[i].exc)))
                  /\ pc' = "done"
             ELSE /\ stream' = Append(stream, Val(task[i].ret))
                  /\ pc' = IF \A j \in DOMAIN task : j <= i THEN "done"
                                                              ELSE "streaming"
  /\ UNCHANGED << http, problem_id, tests, compile_calls, compile_response,
                  compile_result, task, unit >>

\* JudgeYield that reports an exception and goes on with the map
JudgeYieldContinue ==
  /\ pc = "streaming"
  /\ outq # <<>>
  /\ LET i == Head(outq) IN
       /\ stream' = Append(stream, IF task[i].exc # None
                                     THEN Event("error", Val(task[i].exc))
                                     ELSE Val(task[i].ret))
       /\ pc' = IF Tail(outq) = <<>>
                     /\ \A j \in DOMAIN task : Finished(task[j])
                  THEN "done"
                  ELSE "streaming"
  /\ outq' = Tail(outq)
  /\ UNCHANGED << http, problem_id, tests, compile_calls, compile_response,
                  compile_result, task, unit >>

\* lines 187-206: judge_one.map hands over the next finished invocation;
\* its event is yielded, or its exception is raised into the except clause
JudgeYield ==
  /\ pc = "streaming"
  /\ outq # <<>>
  /\ LET i == Head(outq) IN
       IF task[i].exc # None
         THEN /\ stream' = Append(stream, Event("error", Val(task[i].exc)))
              /\ pc' = "done"
         ELSE /\ stream' = Append(stream, Val(task[i].ret))
              /\ pc' = IF Tail(outq) = <<>>
                            /\ \A j \in DOMAIN task : Finished(task[j])
                         THEN "done"
                         ELSE "streaming"
  /\ outq' = Tail(outq)
  /\ UNCHANGED << http, problem_id, tests, compile_calls, compile_response,
                  compile_result, task, unit >>

\* ------------------------------------------- the grader on bounded inputs
GradeInputs ==
  [ verdict : Verdicts,
    stdout : StrsUpTo(MaxLen),
    stderr : {<<>>},
    file_output : {None} \cup {Some(s) : s \in StrsUpTo(MaxLen)},
    full_output_url : {None} ]
    \cup {[internal_error |-> "sandbox crashed", full_output_url |-> None]}

Idle ==
  /\ pc = "request"
  /\ http = None
  /\ problem_id = "none"
  /\ tests = <<>>
  /\ compile_calls = 0
  /\ compile_response = None
  /\ compile_result = None
  /\ stream = <<>>
  /\ task = <<>>
  /\ outq = <<>>

GradeInit ==
  /\ Idle
  /\ unit \in [pc : {"grade_input"}, result : GradeInputs,
                output_data : StrsUpTo(MaxLen)]

\* lines 110-120 applied to result and output_data
GradeApply ==
  /\ unit.pc = "grade_input"
  /\ unit' = [pc |-> "graded", result |-> unit.result,
               output_data |-> unit.output_data,
               out |-> Grade(unit.result, unit.output_data)]
  /\ UNCHANGED << pc, http, problem_id, tests, compile_calls,
                  compile_response, compile_result, stream, task, outq >>

GradeNext == GradeApply

GradeSpec == GradeInit /\ [][GradeNext]_vars

\* ------------------------------- the grader on outputs around the cap
Rep(n) == [i \in 1..n |-> "a"]
CapStrs == {Rep(n) : n \in (OutputCap - CapSpread)..(OutputCap + CapSpread)}

TruncInputs ==
  [ verdict : {"accepted", "time_limit_exceeded"},
    stdout : CapStrs \cup {<<"a">>, Rep(OutputCap) \o <<"\n">>},
    stderr : {<<>>, Rep(OutputCap + 1)},
    file_output : {None, Some(Rep(OutputCap)), Some(Rep(OutputCap + 1))},
    full_output_url : {None} ]

TruncInit ==
  /\ Idle
  /\ unit \in [pc : {"grade_input"}, result : TruncInputs,
                output_data : {<<"a">>, Rep(OutputCap), Rep(OutputCap + 1)}]

TruncSpec == TruncInit /\ [][GradeNext]_vars

\* ---------------------------------------- the offloader on bounded inputs
StageLens ==
  {0, 2 * LargeInputThreshold}
    \cup ((LargeInputThreshold - LenSpread)..(LargeInputThreshold + LenSpread))

StageInit ==
  /\ Idle
  /\ unit \in [pc : {"stage_input"}, input_len : StageLens,
                post : {None} \cup {Some(r) : r \in LargeInputResponses},
                put_ok : BOOLEAN]

\* lines 74-86 applied to an input of input_len characters
StageApply ==
  /\ unit.pc = "stage_input"
  /\ unit' = [pc |-> "stage_done", input_len |-> unit.input_len,
               post |-> unit.post, put_ok |-> unit.put_ok,
               out |-> Stage(unit.input_len, unit.post, unit.put_ok)]
  /\ UNCHANGED << pc, http, problem_id, tests, compile_calls,
                  compile_response, compile_result, stream, task, outq >>

StageNext == StageApply

StageSpec == StageInit /\ [][StageNext]_vars

Next ==
  \/ Judge
  \/ JudgeCompile
  \/ JudgeDispatch
  \/ \E i \in DOMAIN task : JudgeOneStage(i)
  \/ \E i \in DOMAIN task : JudgeOneExecute(i)
  \/ JudgeYield

Spec == Init /\ [][Next]_vars

\* every step that can be taken is eventually taken: the handler and the
\* generator are driven by the server, every judge_one invocation is
\* scheduled, and every backend call returns or fails
FairSpec == Spec /\ WF_vars(Next)

\* ================================================================ claims
NumTests == Cardinality(DOMAIN tests)
EventIdx(name) == {k \in 1..Len(stream) : stream[k].event = name}
ExecuteIdxOf(i) == {k \in EventIdx("execute") : stream[k].data.test_case = i}
CompileReturnedExecutable ==
  /\ compile_result # None
  /\ "executable" \in DOMAIN Val(compile_result)
  /\ Val(compile_result).executable # None
CompileRejected ==
  /\ compile_result # None
  /\ \/ "executable" \notin DOMAIN Val(compile_result)
     \/ Val(compile_result).executable = None
CompileCallFailed ==
  /\ compile_calls = 1
  /\ \/ compile_response = None
     \/ Val(compile_response).json = None
RaisedAt(i, lines) ==
  /\ task[i].phase = "raised"
  /\ Val(task[i].exc).line \in lines
StagingLines == {76, 79, 80, 81}
TransportLines == {88, 105}
InQueue(i) == \E k \in 1..Len(outq) : outq[k] = i
Consumed(i) == Finished(task[i]) /\ ~InQueue(i) /\ pc \in {"streaming", "done"}
AllExecuteEventsOnce ==
  /\ Cardinality(EventIdx("execute")) = NumTests
  /\ \A i \in DOMAIN tests : Cardinality(ExecuteIdxOf(i)) = 1

\* C1: when the compile returned a non-null executable, the finished stream
\* holds exactly one execute event per test case of the manifest, whatever
\* the outcome of each judge_one invocation.
C1_EveryRequestYieldsOneEvent ==
  (pc = "done" /\ CompileReturnedExecutable) => AllExecuteEventsOnce

\* C2: a stream has at most one compile event, and every execute event
\* comes after the compile event.
C2_CompileEventFirst ==
  /\ Cardinality(EventIdx("compile")) <= 1
  /\ \A k \in EventIdx("execute") : \E j \in EventIdx("compile") : j < k

C2_Witness ==
  /\ Len(stream) = 3
  /\ stream[1].event = "compile"
  /\ stream[2].event = "execute"
  /\ stream[3].event = "execute"

\* C3: when the compile result has no executable key or a null executable,
\* the stream is the one compile event, nothing is dispatched and the run
\* ends without execute or error events.
C3_RejectedSourceOnlyCompileEvent ==
  CompileRejected =>
    /\ Len(stream) = 1
    /\ stream[1].event = "compile"
    /\ task = <<>>
    /\ outq = <<>>
    /\ pc \in {"compiled", "done"}

C3_Witness ==
  /\ pc = "done"
  /\ CompileRejected
  /\ "executable" \in DOMAIN Val(compile_result)
  /\ Len(stream) = 1

C5_StagingFailureContained ==
  ( /\ pc = "done"
    /\ \E i \in DOMAIN task : RaisedAt(i, StagingLines)
    /\ \A i \in DOMAIN task :
         task[i].phase = "raised" => RaisedAt(i, StagingLines) )
    => (EventIdx("error") = {} /\ AllExecuteEventsOnce)

\* C6: a transport failure of the execute call or of the full-output fetch
\* stays with its test case: the finished stream has no error event and
\* holds the execute event of every test case.
C6_TransportFailureContained ==
  ( /\ pc = "done"
    /\ \E i \in DOMAIN task : RaisedAt(i, TransportLines)
    /\ \A i \in DOMAIN task :
         task[i].phase = "raised" => RaisedAt(i, TransportLines) )
    => (EventIdx("error") = {} /\ AllExecuteEventsOnce)

\* C7: when the last body the backend returned for a test case is not JSON,
\* judge_one returns (raises nothing) the execute event whose data is
\* exactly internal_error = that raw text plus the correlation attributes,
\* ungraded and untruncated, and _judge emits it as an execute event.
DecodeFailed(t) ==
  /\ t.received # <<>>
  /\ t.received[Len(t.received)].json = None

C7_DecodeFailureIsInternalError ==
  \A i \in DOMAIN task :
    (task[i].execute_calls = 1 /\ DecodeFailed(task[i])) =>
      LET t == task[i]
          ev == Event("execute",
                      [ internal_error |-> t.received[Len(t.received)].text,
                        test_case |-> i,
                        total_test_cases |-> NumTests ])
      IN /\ t.phase = "returned"
         /\ t.exc = None
         /\ Val(t.ret) = ev
         /\ Consumed(i) =>
              \E k \in EventIdx("execute") : stream[k] = ev

C7_Witness ==
  \E i \in DOMAIN task :
    /\ Len(task[i].received) = 2
    /\ DecodeFailed(task[i])
    /\ Consumed(i)
    /\ \E k \in EventIdx("execute") :
         /\ "internal_error" \in DOMAIN stream[k].data
         /\ stream[k].data.test_case = i

\* C8: an error event is the last event of its stream: there is at most
\* one, and once it is emitted the stream never changes again, whatever is
\* still running or queued.
C8_ErrorEventEndsStream ==
  /\ [](/\ Cardinality(EventIdx("error")) <= 1
        /\ \A k \in EventIdx("error") : k = Len(stream))
  /\ [][EventIdx("error") # {} => stream' = stream]_vars

C8_Witness ==
  /\ Len(stream) = 2
  /\ stream[2].event = "error"
  /\ outq # <<>>
  /\ \E i \in DOMAIN task : InQueue(i) /\ task[i].phase = "returned"

\* the outcome of staging an input: sent inline, or kept out of the request
StagedInline(u) ==
  /\ u.out.exc = None
  /\ Val(u.out.ret).stdin = Some(u.input_len)
  /\ Val(u.out.ret).stdin_id = None
StagedOffloaded(u) ==
  \/ /\ u.out.exc # None
     /\ Val(u.out.exc).line \in StagingLines
  \/ /\ u.out.exc = None
     /\ Val(u.out.ret).stdin = None
     /\ Val(u.out.ret).stdin_id # None

\* C9 as stated: an input shorter than 2,000,000 is sent inline, an input of
\* 2,000,000 or more is offloaded and never inlined.
C9_OffloadAtOrAboveThreshold ==
  unit.pc = "stage_done" =>
    IF unit.input_len < LargeInputThreshold
      THEN StagedInline(unit)
      ELSE StagedOffloaded(unit)

\* C9 amended: an input of at most 2,000,000 characters (2,000,000 itself
\* included) is sent inline, a longer one is offloaded and never inlined.
C9_OffloadAboveThreshold ==
  unit.pc = "stage_done" =>
    IF unit.input_len <= LargeInputThreshold
      THEN StagedInline(unit)
      ELSE StagedOffloaded(unit)

C9_Witness ==
  /\ unit.pc = "stage_done"
  /\ unit.input_len = LargeInputThreshold
  /\ StagedInline(unit)

\* leading/trailing whitespace removed, by the positions of the first and
\* the last character that is not whitespace
NonSpaceIdx(s) == {k \in 1..Len(s) : s[k] \notin Whitespace}
Trimmed(s) ==
  IF NonSpaceIdx(s) = {}
    THEN <<>>
    ELSE SubSeq(s,
                CHOOSE k \in NonSpaceIdx(s) : \A j \in NonSpaceIdx(s) : k <= j,
                CHOOSE k \in NonSpaceIdx(s) : \A j \in NonSpaceIdx(s) : j <= k)

\* the program output of a result: the file output when there is a non-empty
\* one, the standard output when there is none (C14 settles the empty one)
ProgramOutputs(r) ==
  IF r.file_output = None
    THEN {r.stdout}
    ELSE IF Val(r.file_output) # <<>>
      THEN {Val(r.file_output)}
      ELSE {r.stdout, <<>>}

\* C10: for a backend result without internal_error, a verdict other than
\* accepted is emitted unchanged, and an accepted one stays accepted exactly
\* when program output and expected output are equal once leading and
\* trailing whitespace is removed, and becomes wrong_answer otherwise.
C10_VerdictGrading ==
  (unit.pc = "graded" /\ "internal_error" \notin DOMAIN unit.result) =>
    /\ unit.out.exc = None
    /\ "verdict" \in DOMAIN Val(unit.out.ret)
    /\ IF unit.result.verdict # "accepted"
         THEN Val(unit.out.ret).verdict = unit.result.verdict
         ELSE \E o \in ProgramOutputs(unit.result) :
                Val(unit.out.ret).verdict =
                  IF Trimmed(o) = Trimmed(unit.output_data)
                    THEN "accepted"
                    ELSE "wrong_answer"

C10_Witness ==
  /\ unit.pc = "graded"
  /\ "internal_error" \notin DOMAIN unit.result
  /\ unit.result.verdict = "accepted"
  /\ unit.result.file_output = None
  /\ unit.result.stdout # unit.output_data
  /\ unit.result.stdout # <<>>
  /\ Head(unit.result.stdout) \in Whitespace
  /\ unit.output_data # <<>>
  /\ Val(unit.out.ret).verdict = "accepted"


\* em is orig[:10000]: orig itself when it is no longer than the cap, else
\* its first 10000 characters
IsCut(orig, em) ==
  IF Len(orig) > OutputCap
    THEN /\ Len(em) = OutputCap
         /\ \A k \in 1..OutputCap : em[k] = orig[k]
    ELSE em = orig
NoOuterSpace(s) ==
  s = <<>> \/ (s[1] \notin Whitespace /\ s[Len(s)] \notin Whitespace)

\* C11: in a graded result stdout, stderr and a non-null file_output longer
\* than 10,000 characters are cut to their first 10,000, shorter ones are
\* unchanged, and the verdict of an accepted result is decided on the uncut
\* output: it stays accepted exactly when the uncut output equals the
\* expected output (for outputs without outer whitespace).
C11_TruncationAfterGrading ==
  (unit.pc = "graded" /\ "internal_error" \notin DOMAIN unit.result) =>
    LET r == unit.result
        o == Val(unit.out.ret)
    IN /\ unit.out.exc = None
       /\ IsCut(r.stdout, o.stdout)
       /\ IsCut(r.stderr, o.stderr)
       /\ (r.file_output = None) = (o.file_output = None)
       /\ r.file_output # None => IsCut(Val(r.file_output), Val(o.file_output))
       /\ ( /\ r.verdict = "accepted"
             /\ NoOuterSpace(unit.output_data)
             /\ \A p \in ProgramOutputs(r) : NoOuterSpace(p) ) =>
            \E p \in ProgramOutputs(r) :
              o.verdict = IF p = unit.output_data
                            THEN "accepted"
                            ELSE "wrong_answer"

C11_Witness ==
  /\ unit.pc = "graded"
  /\ unit.result.verdict = "accepted"
  /\ unit.result.file_output = None
  /\ Len(unit.result.stdout) = OutputCap + 1
  /\ unit.result.stdout = unit.output_data
  /\ Val(unit.out.ret).verdict = "accepted"
  /\ Len(Val(unit.out.ret).stdout) = OutputCap



\* the request was answered with a 404 and nothing of the run has happened
RejectedUnstarted ==
  /\ pc = "rejected"
  /\ http # None
  /\ Val(http).status_code = 404
  /\ stream = <<>>
  /\ compile_calls = 0
  /\ task = <<>>
  /\ outq = <<>>

\* C12: a request for a problem that is not in the problem set, or that is
\* in it but has no test-data mapping, is rejected with a 404 before any
\* compile call or event, and the second reason differs from the first.
C12_RejectedBeforeStream ==
  /\ (problem_id # "none" /\ problem_id \notin Problems) =>
       /\ RejectedUnstarted
       /\ Val(http).detail = "Problem not found"
  /\ (problem_id \in Problems /\ problem_id \notin DOMAIN UsacoToProbgate) =>
       /\ RejectedUnstarted
       /\ Val(http).detail # "Problem not found"

C12_Witness ==
  /\ pc = "rejected"
  /\ problem_id \in Problems
  /\ problem_id \notin DOMAIN UsacoToProbgate
  /\ Val(http).detail = "We don't have test data for this problem yet."



\* C13: execute events leave in completion order: an invocation joins the
\* tail of the queue when it finishes, every execute event emitted is the
\* one of the invocation that finished first among those not yet emitted,
\* and a finished invocation can be emitted whatever the others are doing.
C13_CompletionOrder ==
  /\ [][\A i \in DOMAIN task :
          (~Finished(task[i]) /\ Finished(task'[i])) => outq' = Append(outq, i)
       ]_vars
  /\ [][( /\ Len(stream') = Len(stream) + 1
          /\ stream'[Len(stream')].event = "execute" ) =>
          /\ outq # <<>>
          /\ stream'[Len(stream')].data.test_case = Head(outq)
          /\ outq' = Tail(outq)
       ]_vars
  /\ []((pc = "streaming" /\ outq # <<>>) => ENABLED JudgeYield)

C13_Witness ==
  /\ \E k \in EventIdx("execute") : stream[k].data.test_case = 1
  /\ 0 \in DOMAIN task
  /\ ~Finished(task[0])



\* C14: an accepted result is graded on the file output whenever there is
\* one (also an empty one), and on the standard output only when there is
\* none.
C14_FileOutputPreferred ==
  ( /\ unit.pc = "graded"
    /\ "internal_error" \notin DOMAIN unit.result
    /\ unit.result.verdict = "accepted" ) =>
    LET compared == IF unit.result.file_output # None
                      THEN Val(unit.result.file_output)
                      ELSE unit.result.stdout
    IN Val(unit.out.ret).verdict =
         IF Trimmed(compared) = Trimmed(unit.output_data)
           THEN "accepted"
           ELSE "wrong_answer"


\* C15: every execute request that was sent has exactly one of stdin and
\* stdin_id non-null.
C15_ExactlyOneOfStdinAndId ==
  \A i \in DOMAIN task :
    task[i].execute_request # None =>
      LET o == Val(task[i].execute_request).options
      IN (o.stdin # None) # (o.stdin_id # None)

C15_Witness ==
  \E i \in DOMAIN task, j \in DOMAIN task :
    /\ task[i].execute_request # None
    /\ Val(task[i].execute_request).options.stdin = None
    /\ Val(task[i].execute_request).options.stdin_id # None
    /\ task[j].execute_request # None
    /\ Val(task[j].execute_request).options.stdin # None
    /\ Val(task[j].execute_request).options.stdin_id = None



RunSteps ==
  { <<"request", "rejected">>, <<"request", "compile">>,
    <<"compile", "compiled">>, <<"compile", "done">>,
    <<"compiled", "done">>, <<"compiled", "streaming">>,
    <<"streaming", "done">> }

\* C16: the run moves compile -> {done | dispatch -> streaming -> done};
\* invocations exist only once compile has returned a non-null executable,
\* all N are created by the dispatch step, compile_result is never changed
\* afterwards, and every invocation and every execute request carries
\* exactly the executable compile returned.
C16_DispatchAfterCompile ==
  /\ [](DOMAIN task # {} =>
          /\ CompileReturnedExecutable
          /\ pc \in {"streaming", "done"}
          /\ DOMAIN task = DOMAIN tests
          /\ \A i \in DOMAIN task :
               /\ task[i].params.executable = Val(compile_result).executable
               /\ task[i].execute_request # None =>
                    Val(task[i].execute_request).executable =
                      Val(compile_result).executable)
  /\ [][pc' # pc => <<pc, pc'>> \in RunSteps]_vars
  /\ [][(pc = "compiled" /\ pc' = "streaming") =>
          /\ task = <<>>
          /\ DOMAIN task' = DOMAIN tests
          /\ \A i \in DOMAIN task' : task'[i].phase = "pending"]_vars
  /\ [][compile_result # None => compile_result' = compile_result]_vars

C16_Witness ==
  /\ pc = "done"
  /\ Cardinality(DOMAIN task) = 2
  /\ \A i \in DOMAIN task :
       /\ task[i].execute_request # None
       /\ Val(task[i].execute_request).executable = Some("bin2")



\* the stream of a closed run ends with the compile event of a rejected
\* source, with the last of the N execute events, or with an error event
ClosedStream ==
  /\ stream # <<>>
  /\ \/ stream[Len(stream)].event = "error"
     \/ CompileRejected /\ Len(stream) = 1
     \/ CompileReturnedExecutable /\ AllExecuteEventsOnce
          /\ Len(stream) = NumTests + 1

\* C17: under fairness every request is eventually answered for good: it
\* is rejected, or its stream closes, after the compile event of a rejected
\* source, after the last execute event, or after the error event.
C17_RunTerminates ==
  /\ <>[](pc \in {"done", "rejected"})
  /\ [](pc = "done" => ClosedStream)

C17_Witness ==
  /\ pc = "done"
  /\ NumTests = 2
  /\ AllExecuteEventsOnce
  /\ Len(stream) = 3



\* C18: a run posts to COMPILE_URL exactly once, and an invocation posts to
\* EXECUTE_URL at most once: once it has finished, also by a failure, it
\* has posted once or (when staging failed) not at all, and a finished
\* invocation never runs again.
C18_NoRetries ==
  /\ [](/\ compile_calls <= 1
        /\ pc \in {"compiled", "streaming", "done"} => compile_calls = 1
        /\ \A i \in DOMAIN task :
             /\ task[i].execute_calls <= 1
             /\ task[i].phase \in {"pending", "staged"} =>
                  task[i].execute_calls = 0)
  /\ [][\A i \in DOMAIN task : Finished(task[i]) => task'[i] = task[i]]_vars

C18_Witness ==
  /\ pc = "done"
  /\ compile_calls = 1
  /\ \E i \in DOMAIN task, j \in DOMAIN task :
       /\ RaisedAt(i, {88})
       /\ task[i].execute_calls = 1
       /\ task[j].phase = "returned"
       /\ task[j].execute_calls = 1



\* the decoded body the result of invocation i was built from
BackendBody(i) == Val(task[i].received[Len(task[i].received)].json)

\* C19: the test_case and total_test_cases of an execute event are the ones
\* the dispatcher put into result_attrs of that invocation, also when the
\* backend's body has keys of the same names.
C19_AttrsFromDispatcher ==
  /\ \A i \in DOMAIN task :
       task[i].phase = "returned" =>
         LET d == Val(task[i].ret).data
             a == task[i].params.result_attrs
         IN /\ d.test_case = a.test_case
            /\ d.total_test_cases = a.total_test_cases
  /\ \A k \in EventIdx("execute") :
       \E i \in DOMAIN task :
         /\ task[i].phase = "returned"
         /\ stream[k] = Val(task[i].ret)

C19_Witness ==
  \E i \in DOMAIN task :
    /\ task[i].phase = "returned"
    /\ Len(task[i].received) = 2
    /\ task[i].received[2].json # None
    /\ "test_case" \in DOMAIN BackendBody(i)
    /\ BackendBody(i).test_case # i
    /\ \E k \in EventIdx("execute") :
         stream[k] = Val(task[i].ret) /\ stream[k].data.test_case = i

\* C20: numbering is 0-based: invocation k is the k-th test of the manifest
\* and is dispatched with test_case = k and total_test_cases = N, every
\* execute event carries total_test_cases = N, and a run that emitted all
\* its execute events carries exactly the test_case values 0..N-1.
C20_ZeroBasedNumbering ==
  /\ DOMAIN task # {} => DOMAIN task = 0..(NumTests - 1)
  /\ \A k \in DOMAIN task :
       /\ task[k].params.result_attrs =
            [test_case |-> k, total_test_cases |-> NumTests]
       /\ task[k].params.input_file_path = k
       /\ task[k].params.output_file_path = k
  /\ \A e \in EventIdx("execute") :
       /\ stream[e].data.total_test_cases = NumTests
       /\ stream[e].data.test_case \in 0..(NumTests - 1)
  /\ (pc = "done" /\ CompileReturnedExecutable /\ EventIdx("error") = {}) =>
       {stream[e].data.test_case : e \in EventIdx("execute")}
         = 0..(NumTests - 1)

C20_Witness ==
  /\ pc = "done"
  /\ NumTests = 2
  /\ EventIdx("error") = {}
  /\ {stream[e].data.test_case : e \in EventIdx("execute")} = {0, 1}


====
